---- MODULE Spec2Model ----
(***************************************************************************)
(* Model of pkg/apis/titanium/v1alpha1/cluster.go: the naming convention,  *)
(* the topology resolver (GetMasterHost, GetHealtySlaveHost) and the       *)
(* defaulting engine (ClusterSpec / PodSpec / VolumeSpec UpdateDefaults).  *)
(*                                                                         *)
(* Go strings are TLA+ strings, fmt.Sprintf is string concatenation with   *)
(* ToString for %d.  int64 values are four 16-bit limbs, least significant *)
(* first, so that 80 * mem.Value() keeps its 64-bit width.                 *)
(***************************************************************************)
EXTENDS Integers, Sequences, FiniteSets, TLC

VARIABLES
    Name,             \* c.Name, the cluster identifier
    ReadyNodes,       \* c.Status.ReadyNodes
    OrchestratorUri,  \* opt.OrchestratorUri, read through Spec.GetOrcUri()
    pc,               \* "ready" before a call, "returned" after it
    op,               \* which exported function was called
    arg,              \* its argument (ordinal or resource role), else NoArg
    reply,            \* what the orchestrator answered to the call's query
    host,             \* the string the call returned
    orcLog,           \* the queries the orchestrator received during the call
    spec,             \* the ClusterSpec being defaulted
    options,          \* the *options.Options handed to UpdateDefaults
    calls,            \* the UpdateDefaults methods called so far, in order
    history,          \* the spec before the first call and after every call
    err               \* the error the last UpdateDefaults returned

topoVars == <<Name, ReadyNodes, OrchestratorUri, pc, op, arg, reply, host, orcLog>>
defVars  == <<spec, options, calls, history, err>>
vars     == <<topoVars, defVars>>

-----------------------------------------------------------------------------
(* Bounds of the model *)

MaxReadyNodes == 2
MaxReplicas   == 3
MaxOrdinal    == 3
MaxCalls      == 2

ClusterNames == {"db", "shop"}
OrcUris      == {"", "http://orc:3000"}
NoArg        == "-"
NoHost       == "<none>"
NoReply      == [err |-> FALSE, hostname |-> NoHost, replicas |-> <<>>]

-----------------------------------------------------------------------------
(* Naming convention *)

HeadlessSVC   == "headless"
StatefulSet   == "mysql"
ConfigMap     == "config-files"
EnvSecret     == "env-config"
BackupCronJob == "backup-cron"

ResourceNames == {HeadlessSVC, StatefulSet, ConfigMap, EnvSecret, BackupCronJob}

\* A naming scheme that tells the roles apart.
getNameForResourceByRole(name, clusterName) ==
    clusterName \o "-" \o name

\* fmt.Sprintf("%s-mysql", clusterName); the role is not used.
getNameForResource(name, clusterName) ==
    clusterName \o "-mysql"

GetNameForResource(c, name) == getNameForResource(name, c)

\* pod := Sprintf("%s-%d", ...); return Sprintf("%s.%s", pod, ...)
GetPodHostName(c, p) ==
    LET pod == GetNameForResource(c, StatefulSet) \o "-" \o ToString(p)
    IN  pod \o "." \o GetNameForResource(c, HeadlessSVC)

-----------------------------------------------------------------------------
(* Topology resolver *)

LagBound == 5

\* One query as the orchestrator sees it.
Query(method, cluster) == [method |-> method, cluster |-> cluster]

\* The fallback that points one ordinal too far.
HealthySlaveDefaultOffByOne(c, ready) ==
    GetNameForResource(c, StatefulSet) \o "-" \o ToString(ready)
        \o "." \o GetNameForResource(c, HeadlessSVC)

\* host := Sprintf("%s-%d.%s", name(StatefulSet), ReadyNodes-1, name(HeadlessSVC))
HealthySlaveDefault(c, ready) ==
    GetNameForResource(c, StatefulSet) \o "-" \o ToString(ready - 1)
        \o "." \o GetNameForResource(c, HeadlessSVC)

Eligible(r) ==
    r.SecondsBehindMaster.Valid /\ r.SecondsBehindMaster.Int64 <= LagBound

\* The loop that stops at the first eligible replica.
RECURSIVE ChooseReplicaFirst(_, _)
ChooseReplicaFirst(replicas, h) ==
    IF replicas = <<>> THEN h
    ELSE IF Eligible(Head(replicas)) THEN Head(replicas).Key.Hostname
         ELSE ChooseReplicaFirst(Tail(replicas), h)

\* for _, r := range replicas { if eligible { host = r.Key.Hostname } }
RECURSIVE ChooseReplica(_, _)
ChooseReplica(replicas, h) ==
    IF replicas = <<>> THEN h
    ELSE ChooseReplica(Tail(replicas),
                       IF Eligible(Head(replicas))
                       THEN Head(replicas).Key.Hostname
                       ELSE h)

\* The call that asks the orchestrator again after a failed query.
GetHealtySlaveHostRetry(c, ready, uri, rep) ==
    LET h == HealthySlaveDefault(c, ready)
        q == Query("ClusterOSCReplicas", c)
    IN  IF Len(uri) # 0
        THEN IF rep.err
             THEN [host |-> h, log |-> <<q, q>>]
             ELSE [host |-> ChooseReplica(rep.replicas, h), log |-> <<q>>]
        ELSE [host |-> h, log |-> <<>>]

\* GetHealtySlaveHost: the returned host and the queries it issued.
GetHealtySlaveHostCall(c, ready, uri, rep) ==
    LET h == HealthySlaveDefault(c, ready)
        q == Query("ClusterOSCReplicas", c)
    IN  IF Len(uri) # 0
        THEN IF rep.err
             THEN [host |-> h, log |-> <<q>>]
             ELSE [host |-> ChooseReplica(rep.replicas, h), log |-> <<q>>]
        ELSE [host |-> h, log |-> <<>>]

\* The call that hands the failed query's empty instance to the caller.
GetMasterHostNoFallback(c, uri, rep) ==
    LET q == Query("Master", c)
    IN  IF Len(uri) # 0
        THEN [host |-> IF rep.err THEN "" ELSE rep.hostname, log |-> <<q>>]
        ELSE [host |-> GetPodHostName(c, 0), log |-> <<>>]

\* GetMasterHost: the returned host and the queries it issued.
GetMasterHostCall(c, uri, rep) ==
    LET masterHost == GetPodHostName(c, 0)
        q          == Query("Master", c)
    IN  IF Len(uri) # 0
        THEN IF ~rep.err
             THEN [host |-> rep.hostname, log |-> <<q>>]
             ELSE [host |-> masterHost, log |-> <<q>>]
        ELSE [host |-> masterHost, log |-> <<>>]

-----------------------------------------------------------------------------
(* What the orchestrator may answer *)

ReplicaHostname(i) == "h" \o ToString(i)

NullLag == [Int64 |-> 0, Valid |-> FALSE]
Lags    == {NullLag} \cup {[Int64 |-> l, Valid |-> TRUE] : l \in {3, 5, 6, 10}}

\* Replica lists of up to MaxReplicas entries; entry i is host "h<i>".
ReplicaLists ==
    UNION {
        { [i \in 1..n |-> [Key |-> [Hostname |-> ReplicaHostname(i)],
                           SecondsBehindMaster |-> f[i]]] : f \in [1..n -> Lags] }
        : n \in 0..MaxReplicas }

ReplicaReplies ==
    {[err |-> TRUE, hostname |-> NoHost, replicas |-> <<>>]}
        \cup {[err |-> FALSE, hostname |-> NoHost, replicas |-> rs] : rs \in ReplicaLists}

MasterReplies ==
    {[err |-> TRUE, hostname |-> NoHost, replicas |-> <<>>]}
        \cup {[err |-> FALSE, hostname |-> h, replicas |-> <<>>] : h \in {"h1", "db-mysql-1.db-mysql"}}

-----------------------------------------------------------------------------
(* int64 arithmetic on four 16-bit limbs, least significant limb first *)

Base   == 2^16
Limbs  == 1..4
Zero   == <<0, 0, 0, 0>>

\* The int64 of a small non-negative number.
Int64(n) == <<n % Base, (n \div Base) % Base, 0, 0>>

IsNeg(w) == w[4] >= Base \div 2

RECURSIVE MulCarry(_, _, _)
MulCarry(w, k, i) ==
    IF i = 0 THEN 0 ELSE (w[i] * k + MulCarry(w, k, i - 1)) \div Base

\* k * w in int64: the carry out of the top limb is lost.
Mul(k, w) == [i \in Limbs |-> (w[i] * k + MulCarry(w, k, i - 1)) % Base]

RECURSIVE IncCarry(_, _)
IncCarry(w, i) ==
    IF i = 0 THEN 1 ELSE (w[i] + IncCarry(w, i - 1)) \div Base

Inc(w) == [i \in Limbs |-> (w[i] + IncCarry(w, i - 1)) % Base]

\* -w in two's complement.
Neg(w) == Inc([i \in Limbs |-> Base - 1 - w[i]])

RECURSIVE RemFrom(_, _, _)
RemFrom(w, d, i) ==
    IF i = 5 THEN 0 ELSE (RemFrom(w, d, i + 1) * Base + w[i]) % d

\* Long division of a non-negative w by a small d.
QuoU(w, d) == [i \in Limbs |-> (RemFrom(w, d, i + 1) * Base + w[i]) \div d]
RemU(w, d) == RemFrom(w, d, 1)

\* Go's w / d for d > 0: the quotient is truncated toward zero.
Quo(w, d) == IF IsNeg(w) THEN Neg(QuoU(Neg(w), d)) ELSE QuoU(w, d)

\* w >= n for a non-negative w and a small n.
GeqSmall(w, n) == w[4] > 0 \/ w[3] > 0 \/ w[2] > 0 \/ w[1] >= n

RECURSIVE DigitsU(_)
DigitsU(w) ==
    IF GeqSmall(w, 10)
    THEN DigitsU(QuoU(w, 10)) \o ToString(RemU(w, 10))
    ELSE ToString(w[1])

\* strconv.AppendInt(out, w, 10)
Itoa(w) == IF IsNeg(w) THEN "-" \o DigitsU(Neg(w)) ELSE DigitsU(w)

-----------------------------------------------------------------------------
(* resource.Quantity as the code uses it: an int64 amount, a decimal scale *)
(* and a format.                                                           *)

BinarySI  == "BinarySI"
DecimalSI == "DecimalSI"

Quantity(value, scale, format) ==
    [value |-> value, scale |-> scale, Format |-> format]

\* resource.NewQuantity(val, format)
NewQuantity(val, format) == Quantity(val, 0, format)

\* q.Value(): the amount at scale 0, a fraction rounded up.
Value(q) ==
    IF q.scale >= 0 THEN q.value
    ELSE LET d == 10 ^ (0 - q.scale)
         IN  IF RemU(q.value, d) = 0 THEN QuoU(q.value, d)
             ELSE Inc(QuoU(q.value, d))

\* removeInt64Factors(value, 10) of a non-negative value
RECURSIVE removeInt64Factors(_, _)
removeInt64Factors(w, times) ==
    IF GeqSmall(w, 10) /\ RemU(w, 10) = 0
    THEN removeInt64Factors(QuoU(w, 10), times + 1)
    ELSE [result |-> w, times |-> times]

DecimalSuffix(exponent) ==
    CASE exponent = -9 -> "n"
      [] exponent = -6 -> "u"
      [] exponent = -3 -> "m"
      [] exponent = 0  -> ""
      [] exponent = 3  -> "k"
      [] exponent = 6  -> "M"
      [] exponent = 9  -> "G"
      [] exponent = 12 -> "T"
      [] exponent = 15 -> "P"
      [] exponent = 18 -> "E"

\* q.String() of a DecimalSI quantity: the mantissa without its factors of
\* ten, the exponent brought down to a multiple of three, then the suffix.
QuantityString(q) ==
    LET negative == IsNeg(q.value)
        f        == removeInt64Factors(IF negative THEN Neg(q.value) ELSE q.value, 0)
        amount   == IF negative THEN Neg(f.result) ELSE f.result
        exponent == q.scale + f.times
    IN  CASE exponent % 3 = 0 -> Itoa(amount) \o DecimalSuffix(exponent)
          [] exponent % 3 = 1 -> Itoa(Mul(10, amount)) \o DecimalSuffix(exponent - 1)
          [] exponent % 3 = 2 -> Itoa(Mul(100, amount)) \o DecimalSuffix(exponent - 2)

-----------------------------------------------------------------------------
(* Defaulting engine.  A Go map is a function on its keys; the code reads   *)
(* maps only through len() and key lookup, which do not tell a nil map from *)
(* an empty one, so both are the empty function.                            *)

innodbBufferSizePercent == 80

ResourceCPU     == "cpu"
ResourceMemory  == "memory"
ResourceStorage == "storage"
ReadWriteOnce   == "ReadWriteOnce"
BufferPoolKey   == "innodb-buffer-pool-size"
NoError         == "nil"
EmptyMap        == <<>>

MapLen(m) == Cardinality(DOMAIN m)

\* resource.MustParse("200m"), ("1Gi"), ("8Gi")
resourceRequestCPU    == Quantity(Int64(200), -3, DecimalSI)
resourceRequestMemory == Quantity(<<0, 2^14, 0, 0>>, 0, BinarySI)
resourceStorage       == Quantity(<<0, 0, 2, 0>>, 0, BinarySI)

\* ResourceList.Memory(): a pointer to the entry, or to a fresh zero quantity
\* when the list has no memory entry; the pointer is never nil.
Memory(rl) ==
    IF ResourceMemory \in DOMAIN rl
    THEN [isNil |-> FALSE, q |-> rl[ResourceMemory]]
    ELSE [isNil |-> FALSE, q |-> Quantity(Zero, 0, BinarySI)]

\* Eighty per cent taken by dividing first.
BufferPoolSizeDivideFirst(memValue) ==
    Mul(innodbBufferSizePercent, Quo(memValue, 100))

\* val := (innodbBufferSizePercent * mem.Value()) / 100
BufferPoolSize(memValue) ==
    Quo(Mul(innodbBufferSizePercent, memValue), 100)

\* Defaults filled in per resource dimension.
PodSpecUpdateDefaultsPerDimension(ps, opt) ==
    LET p1 == IF Len(ps.ImagePullPolicy) = 0
              THEN [ps EXCEPT !.ImagePullPolicy = opt.ImagePullPolicy]
              ELSE ps
        rq == p1.Resources.Requests
        p2 == [p1 EXCEPT !.Resources.Requests =
                  [k \in DOMAIN rq \cup {ResourceCPU, ResourceMemory} |->
                      IF k \in DOMAIN rq THEN rq[k]
                      ELSE IF k = ResourceCPU THEN resourceRequestCPU
                      ELSE resourceRequestMemory]]
    IN  [ps |-> p2, err |-> NoError]

\* Defaults that forget the memory request.
PodSpecUpdateDefaultsCpuOnly(ps, opt) ==
    LET p1 == IF Len(ps.ImagePullPolicy) = 0
              THEN [ps EXCEPT !.ImagePullPolicy = opt.ImagePullPolicy]
              ELSE ps
        p2 == IF MapLen(p1.Resources.Requests) = 0
              THEN [p1 EXCEPT !.Resources =
                       [Limits   |-> EmptyMap,
                        Requests |-> [k \in {ResourceCPU} |-> resourceRequestCPU]]]
              ELSE p1
    IN  [ps |-> p2, err |-> NoError]

\* PodSpec.UpdateDefaults
PodSpecUpdateDefaults(ps, opt) ==
    LET p1 == IF Len(ps.ImagePullPolicy) = 0
              THEN [ps EXCEPT !.ImagePullPolicy = opt.ImagePullPolicy]
              ELSE ps
        p2 == IF MapLen(p1.Resources.Requests) = 0
              THEN [p1 EXCEPT !.Resources =
                       [Limits   |-> EmptyMap,
                        Requests |-> [k \in {ResourceCPU, ResourceMemory} |->
                                         IF k = ResourceCPU
                                         THEN resourceRequestCPU
                                         ELSE resourceRequestMemory]]]
              ELSE p1
    IN  [ps |-> p2, err |-> NoError]

\* Defaults that add the access mode on every call.
VolumeSpecUpdateDefaultsAppend(vs) ==
    LET v1 == [vs EXCEPT !.AccessModes = Append(vs.AccessModes, ReadWriteOnce)]
        v2 == IF MapLen(v1.Resources.Requests) = 0
              THEN [v1 EXCEPT !.Resources =
                       [Limits   |-> EmptyMap,
                        Requests |-> [k \in {ResourceStorage} |-> resourceStorage]]]
              ELSE v1
    IN  [vs |-> v2, err |-> NoError]

\* VolumeSpec.UpdateDefaults
VolumeSpecUpdateDefaults(vs) ==
    LET v1 == IF Len(vs.AccessModes) = 0
              THEN [vs EXCEPT !.AccessModes = <<ReadWriteOnce>>]
              ELSE vs
        v2 == IF MapLen(v1.Resources.Requests) = 0
              THEN [v1 EXCEPT !.Resources =
                       [Limits   |-> EmptyMap,
                        Requests |-> [k \in {ResourceStorage} |-> resourceStorage]]]
              ELSE v1
    IN  [vs |-> v2, err |-> NoError]

\* m[key] = value on a Go map
MapSet(m, key, value) ==
    [k \in DOMAIN m \cup {key} |-> IF k = key THEN value ELSE m[k]]

\* ClusterSpec.UpdateDefaults
ClusterSpecUpdateDefaults(c, opt) ==
    LET c1 == IF Len(c.MysqlVersion) = 0
              THEN [c EXCEPT !.MysqlVersion = opt.MysqlImageTag]
              ELSE c
        p  == PodSpecUpdateDefaults(c1.PodSpec, opt)
        c2 == [c1 EXCEPT !.PodSpec = p.ps]
        mem  == Memory(c2.PodSpec.Resources.Requests)
        val  == BufferPoolSize(Value(mem.q))
        res  == NewQuantity(val, DecimalSI)
        conf == IF MapLen(c2.MysqlConf) = 0 THEN EmptyMap ELSE c2.MysqlConf
        c3 == IF BufferPoolKey \notin DOMAIN c2.MysqlConf /\ ~mem.isNil
              THEN [c2 EXCEPT !.MysqlConf = MapSet(conf, BufferPoolKey, QuantityString(res))]
              ELSE c2
        v  == VolumeSpecUpdateDefaults(c3.VolumeSpec)
    IN  IF p.err # NoError
        THEN [spec |-> c2, err |-> p.err]
        ELSE [spec |-> [c3 EXCEPT !.VolumeSpec = v.vs], err |-> v.err]

-----------------------------------------------------------------------------
(* The specs and options the defaulting engine is run on *)

\* 1250 B, 512 MiB, 1 GiB, 4 GiB
MemoryRequests ==
    { Quantity(Int64(1250), 0, DecimalSI),
      Quantity(<<0, 2^13, 0, 0>>, 0, BinarySI),
      Quantity(<<0, 2^14, 0, 0>>, 0, BinarySI),
      Quantity(<<0, 0, 1, 0>>, 0, BinarySI) }

CpuRequests == { Quantity(Int64(500), -3, DecimalSI) }

\* Every ResourceList holding a subset of {cpu, memory}.
RequestLists ==
    {EmptyMap}
        \cup {[k \in {ResourceCPU} |-> c] : c \in CpuRequests}
        \cup {[k \in {ResourceMemory} |-> m] : m \in MemoryRequests}
        \cup {[k \in {ResourceCPU, ResourceMemory} |->
                  IF k = ResourceCPU THEN c ELSE m] : c \in CpuRequests, m \in MemoryRequests}

LimitLists ==
    {EmptyMap, [k \in {ResourceMemory} |-> Quantity(<<0, 2^15, 0, 0>>, 0, BinarySI)]}

MysqlConfs ==
    { EmptyMap,
      [k \in {BufferPoolKey} |-> "128M"],
      [k \in {"max-connections"} |-> "100"],
      [k \in {BufferPoolKey, "max-connections"} |->
          IF k = BufferPoolKey THEN "128M" ELSE "100"] }

VolumeSpecs ==
    { [AccessModes |-> am, Resources |-> [Limits |-> EmptyMap, Requests |-> rq]] :
        am \in {<<>>, <<"ReadWriteMany">>},
        rq \in {EmptyMap, [k \in {ResourceStorage} |-> Quantity(<<0, 2^14, 0, 0>>, 0, BinarySI)]} }

PodSpecs ==
    { [ImagePullPolicy |-> pp, Resources |-> [Limits |-> l, Requests |-> rq]] :
        pp \in {"", "Always"}, l \in LimitLists, rq \in RequestLists }

ClusterSpecs ==
    { [MysqlVersion |-> v, PodSpec |-> ps, MysqlConf |-> mc, VolumeSpec |-> vs] :
        v \in {"", "8.0"}, ps \in PodSpecs, mc \in MysqlConfs, vs \in VolumeSpecs }

OptionsSet ==
    { [MysqlImageTag |-> t, ImagePullPolicy |-> "IfNotPresent"] : t \in {"", "5.7"} }

BlankSpec ==
    [MysqlVersion |-> "",
     PodSpec      |-> [ImagePullPolicy |-> "",
                       Resources |-> [Limits |-> EmptyMap, Requests |-> EmptyMap]],
     MysqlConf    |-> EmptyMap,
     VolumeSpec   |-> [AccessModes |-> <<>>,
                       Resources |-> [Limits |-> EmptyMap, Requests |-> EmptyMap]]]

-----------------------------------------------------------------------------
(* Topology: one call on a cluster, answered by the orchestrator *)

TopologyIdle ==
    /\ pc = "ready" /\ op = NoArg /\ arg = NoArg
    /\ reply = NoReply /\ host = NoHost /\ orcLog = <<>>

DefaultsIdle ==
    /\ spec = BlankSpec
    /\ options = [MysqlImageTag |-> "", ImagePullPolicy |-> ""]
    /\ calls = <<>> /\ history = <<BlankSpec>> /\ err = NoError

InitTopology ==
    /\ Name \in ClusterNames
    /\ ReadyNodes \in 0..MaxReadyNodes
    /\ OrchestratorUri \in OrcUris
    /\ TopologyIdle
    /\ DefaultsIdle

Returned(name, a, rep, r) ==
    /\ pc' = "returned"
    /\ op' = name
    /\ arg' = a
    /\ reply' = rep
    /\ host' = r.host
    /\ orcLog' = r.log
    /\ UNCHANGED <<Name, ReadyNodes, OrchestratorUri, defVars>>

\* The orchestrator is asked only when the URI is set.
Replies(all) == IF Len(OrchestratorUri) # 0 THEN all ELSE {NoReply}

CallGetMasterHost ==
    /\ pc = "ready"
    /\ \E rep \in Replies(MasterReplies) :
         Returned("GetMasterHost", NoArg, rep,
                  GetMasterHostCall(Name, OrchestratorUri, rep))

CallGetHealtySlaveHost ==
    /\ pc = "ready"
    /\ \E rep \in Replies(ReplicaReplies) :
         Returned("GetHealtySlaveHost", NoArg, rep,
                  GetHealtySlaveHostCall(Name, ReadyNodes, OrchestratorUri, rep))

CallGetPodHostName ==
    /\ pc = "ready"
    /\ \E p \in 0..MaxOrdinal :
         Returned("GetPodHostName", ToString(p), NoReply,
                  [host |-> GetPodHostName(Name, p), log |-> <<>>])

CallGetNameForResource ==
    /\ pc = "ready"
    /\ \E role \in ResourceNames :
         Returned("GetNameForResource", role, NoReply,
                  [host |-> GetNameForResource(Name, role), log |-> <<>>])

NextTopology ==
    \/ CallGetMasterHost
    \/ CallGetHealtySlaveHost
    \/ CallGetPodHostName
    \/ CallGetNameForResource

SpecTopology == InitTopology /\ [][NextTopology]_vars

-----------------------------------------------------------------------------
(* Defaulting: up to MaxCalls UpdateDefaults calls on one spec *)

InitDefaults ==
    /\ Name = "db" /\ ReadyNodes = 0 /\ OrchestratorUri = ""
    /\ TopologyIdle
    /\ spec \in ClusterSpecs
    /\ options \in OptionsSet
    /\ calls = <<>>
    /\ history = <<spec>>
    /\ err = NoError

Defaulted(name, r) ==
    /\ spec' = r.spec
    /\ err' = r.err
    /\ calls' = Append(calls, name)
    /\ history' = Append(history, r.spec)
    /\ UNCHANGED <<options, topoVars>>

CallClusterSpecUpdateDefaults ==
    /\ Len(calls) < MaxCalls
    /\ Defaulted("ClusterSpec", ClusterSpecUpdateDefaults(spec, options))

CallPodSpecUpdateDefaults ==
    /\ Len(calls) < MaxCalls
    /\ LET r == PodSpecUpdateDefaults(spec.PodSpec, options)
       IN  Defaulted("PodSpec", [spec |-> [spec EXCEPT !.PodSpec = r.ps], err |-> r.err])

CallVolumeSpecUpdateDefaults ==
    /\ Len(calls) < MaxCalls
    /\ LET r == VolumeSpecUpdateDefaults(spec.VolumeSpec)
       IN  Defaulted("VolumeSpec", [spec |-> [spec EXCEPT !.VolumeSpec = r.vs], err |-> r.err])

NextDefaults ==
    \/ CallClusterSpecUpdateDefaults
    \/ CallPodSpecUpdateDefaults
    \/ CallVolumeSpecUpdateDefaults

SpecDefaults == InitDefaults /\ [][NextDefaults]_vars

-----------------------------------------------------------------------------
(* Properties of the topology resolver and the naming convention,          *)
(* checked under SpecTopology                                               *)

ReturnedFrom(name) == pc = "returned" /\ op = name

Queried == Len(OrchestratorUri) # 0

\* The lag is measured and at most five seconds.
FreshEnough(r) ==
    r.SecondsBehindMaster.Valid = TRUE /\ r.SecondsBehindMaster.Int64 =< 5

LastFresh(rs, i) ==
    /\ FreshEnough(rs[i])
    /\ \A j \in (i + 1)..Len(rs) : ~FreshEnough(rs[j])

NoneFresh(rs) == \A i \in 1..Len(rs) : ~FreshEnough(rs[i])

\* C1: after a successful replica query, GetHealtySlaveHost returns the
\* hostname of the last replica in listing order whose lag is present and
\* <= 5; a replica with null lag or lag > 5 is never the one returned,
\* whatever the lags of the others.
C1_LastEligibleReplicaWins ==
    (ReturnedFrom("GetHealtySlaveHost") /\ Queried /\ ~reply.err) =>
        \A i \in 1..Len(reply.replicas) :
            /\ LastFresh(reply.replicas, i) => host = reply.replicas[i].Key.Hostname
            /\ host = reply.replicas[i].Key.Hostname => FreshEnough(reply.replicas[i])

\* The reply [{h1, 10}, {h2, 3}, {h3, null}] answered with h2.
C1_Witness ==
    /\ ReturnedFrom("GetHealtySlaveHost") /\ Queried /\ ~reply.err
    /\ Len(reply.replicas) = 3
    /\ reply.replicas[1].SecondsBehindMaster = [Int64 |-> 10, Valid |-> TRUE]
    /\ reply.replicas[2].SecondsBehindMaster = [Int64 |-> 3, Valid |-> TRUE]
    /\ reply.replicas[3].SecondsBehindMaster = NullLag
    /\ host = "h2"

\* C2: GetMasterHost always returns a hostname: <name>-mysql-0.<name>-mysql
\* when the orchestrator URI is empty or the query fails, the orchestrator's
\* reported master when the query succeeds.
C2_MasterHostOrFallback ==
    ReturnedFrom("GetMasterHost") =>
        /\ ~Queried => host = Name \o "-mysql-0." \o Name \o "-mysql"
        /\ (Queried /\ ~reply.err) => host = reply.hostname
        /\ (Queried /\ reply.err) => host = Name \o "-mysql-0." \o Name \o "-mysql"

\* A failed master query answered with the structural default.
C2_Witness ==
    /\ ReturnedFrom("GetMasterHost") /\ Queried /\ reply.err
    /\ host = "shop-mysql-0.shop-mysql"

\* C3: GetHealtySlaveHost returns GetPodHostName(ReadyNodes - 1) when the
\* URI is empty, the query fails, the replica list is empty or no replica
\* is eligible.
C3_StructuralDefault ==
    (/\ ReturnedFrom("GetHealtySlaveHost")
     /\ (~Queried \/ reply.err \/ NoneFresh(reply.replicas))) =>
        host = GetPodHostName(Name, ReadyNodes - 1)

\* A non-empty reply without an eligible replica, answered with the default.
C3_Witness ==
    /\ ReturnedFrom("GetHealtySlaveHost") /\ Queried /\ ~reply.err
    /\ Len(reply.replicas) = 2 /\ NoneFresh(reply.replicas)
    /\ ReadyNodes = 2
    /\ host = "db-mysql-1.db-mysql"

\* C4: one call of GetMasterHost or GetHealtySlaveHost queries the
\* orchestrator exactly once when the URI is set, also when the query
\* fails, and not at all when the URI is empty.
C4_OneQueryPerCall ==
    (ReturnedFrom("GetMasterHost") \/ ReturnedFrom("GetHealtySlaveHost")) =>
        /\ Len(orcLog) = (IF Queried THEN 1 ELSE 0)
        /\ \A i \in 1..Len(orcLog) : orcLog[i].cluster = Name

\* A failed replica query that was not repeated.
C4_Witness ==
    /\ ReturnedFrom("GetHealtySlaveHost") /\ Queried /\ reply.err
    /\ Len(orcLog) = 1

\* C10: GetPodHostName(p) is <name>-mysql-<p>.<name>-mysql, and the name of
\* each of the five resource roles is <name>-mysql.
C10_HostNameShape ==
    /\ ReturnedFrom("GetPodHostName") =>
           host = Name \o "-mysql-" \o arg \o "." \o Name \o "-mysql"
    /\ ReturnedFrom("GetNameForResource") =>
           (arg \in ResourceNames /\ host = Name \o "-mysql")

\* The host name of ordinal 3 of cluster shop.
C10_Witness ==
    /\ ReturnedFrom("GetPodHostName") /\ Name = "shop" /\ arg = "3"
    /\ host = "shop-mysql-3.shop-mysql"

-----------------------------------------------------------------------------
(* Properties of the defaulting engine, checked under SpecDefaults          *)

Steps   == 1..Len(calls)
Pre(i)  == history[i]
Post(i) == history[i + 1]

Requests(c) == c.PodSpec.Resources.Requests

Both == {ResourceCPU, ResourceMemory}

\* The 80 % of each memory request of the model, rounded down, as the
\* decimal quantity string: of 1250 B, 512 MiB, 1 GiB and 4 GiB.
ExpectedBufferPool(memValue) ==
    CASE memValue = <<1250, 0, 0, 0>>  -> "1k"
      [] memValue = <<0, 8192, 0, 0>>  -> "429496729"
      [] memValue = <<0, 16384, 0, 0>> -> "858993459"
      [] memValue = <<0, 0, 1, 0>>     -> "3435973836"

\* C5: ClusterSpec.UpdateDefaults applied twice leaves the spec it left
\* when applied once.
C5_Idempotent ==
    \A i \in Steps :
        (i > 1 /\ calls[i - 1] = "ClusterSpec" /\ calls[i] = "ClusterSpec") =>
            Post(i) = Pre(i)

\* Two applications in a row, the first of which changed every part.
C5_Witness ==
    /\ calls = <<"ClusterSpec", "ClusterSpec">>
    /\ history[1].MysqlVersion # history[2].MysqlVersion
    /\ history[1].PodSpec # history[2].PodSpec
    /\ history[1].MysqlConf # history[2].MysqlConf
    /\ history[1].VolumeSpec # history[2].VolumeSpec

\* C6: PodSpec.UpdateDefaults leaves declared resource requests as they
\* are, adding nothing for a dimension left unset; with no request declared
\* it sets cpu to 200m and memory to 1Gi.
C6_AllOrNothing ==
    \A i \in Steps :
        calls[i] \in {"PodSpec", "ClusterSpec"} =>
            IF Requests(Pre(i)) # EmptyMap
            THEN Requests(Post(i)) = Requests(Pre(i))
            ELSE /\ DOMAIN Requests(Post(i)) = Both
                 /\ Requests(Post(i))[ResourceCPU].value = <<200, 0, 0, 0>>
                 /\ Requests(Post(i))[ResourceCPU].scale = -3
                 /\ Requests(Post(i))[ResourceMemory].value = <<0, 16384, 0, 0>>
                 /\ Requests(Post(i))[ResourceMemory].scale = 0

\* A spec that declared only cpu and got no memory request.
C6_Witness ==
    /\ calls = <<"PodSpec">>
    /\ DOMAIN Requests(Pre(1)) = {ResourceCPU}
    /\ DOMAIN Requests(Post(1)) = {ResourceCPU}

\* C7: without the innodb-buffer-pool-size key and with a memory request of
\* m bytes (declared or just defaulted), ClusterSpec.UpdateDefaults sets the
\* key to (80 * m) / 100 rounded down; a key already present keeps its value.
\* Checked for the memory requests of the model, all below 2^63 / 80, the
\* size from which the int64 product no longer fits.
C7_BufferPoolEightyPercent ==
    \A i \in Steps :
        calls[i] = "ClusterSpec" =>
            /\ (/\ BufferPoolKey \notin DOMAIN Pre(i).MysqlConf
                /\ ResourceMemory \in DOMAIN Requests(Post(i))) =>
                   /\ BufferPoolKey \in DOMAIN Post(i).MysqlConf
                   /\ Post(i).MysqlConf[BufferPoolKey] =
                          ExpectedBufferPool(Requests(Post(i))[ResourceMemory].value)
            /\ BufferPoolKey \in DOMAIN Pre(i).MysqlConf =>
                   Post(i).MysqlConf[BufferPoolKey] = Pre(i).MysqlConf[BufferPoolKey]

\* No request declared: memory defaulted to 1Gi and the key set from it.
C7_Witness ==
    /\ calls = <<"ClusterSpec">>
    /\ Requests(Pre(1)) = EmptyMap
    /\ Pre(1).MysqlConf = EmptyMap
    /\ Post(1).MysqlConf[BufferPoolKey] = "858993459"

\* C8: with no memory request after PodSpec defaulting and no
\* innodb-buffer-pool-size key, ClusterSpec.UpdateDefaults leaves the key
\* unset and returns no error.
C8_KeyLeftUnset ==
    \A i \in Steps :
        (/\ calls[i] = "ClusterSpec"
         /\ BufferPoolKey \notin DOMAIN Pre(i).MysqlConf
         /\ ResourceMemory \notin DOMAIN Requests(Post(i))) =>
            (BufferPoolKey \notin DOMAIN Post(i).MysqlConf /\ err = NoError)

\* C9: after PodSpec.UpdateDefaults the PodSpec has a cpu request and a
\* memory request, whatever it declared before.
C9_BothRequestsSet ==
    \A i \in Steps :
        calls[i] = "PodSpec" => Both \subseteq DOMAIN Requests(Post(i))

\* C9 amended: after PodSpec.UpdateDefaults the PodSpec has at least one
\* resource request, and it has both a cpu and a memory request when it
\* declared none or both before.
C9_RequestsSetUnlessOneDeclared ==
    \A i \in Steps :
        calls[i] = "PodSpec" =>
            /\ Requests(Post(i)) # EmptyMap
            /\ (Requests(Pre(i)) = EmptyMap \/ Both \subseteq DOMAIN Requests(Pre(i))) =>
                   Both \subseteq DOMAIN Requests(Post(i))

\* A spec without requests that got both.
C9_Witness ==
    /\ calls = <<"PodSpec">>
    /\ Requests(Pre(1)) = EmptyMap
    /\ DOMAIN Requests(Post(1)) = Both

====
